---------------------------- MODULE Spec2Model ----------------------------
(***************************************************************************)
(* MWR::C3::Core::DeviceBridge (Src/Core/DeviceBridge.cpp): the adapter    *)
(* between a Device (transport) and the Relay.  The model covers the       *)
(* chunked send path (OnPassNetworkPacket), the command plane              *)
(* (OnCommandFromConnector, RunCommand) with the write mutex, and the      *)
(* receive path (PassNetworkPacket) with the QoS reassembly it drives, the  *)
(* constructor's decoding of the negotiation arguments, and the life cycle *)
(* (OnAttach, StartUpdatingInSeparateThread and its worker loop, Detach).  *)
(*                                                                         *)
(* QualityOfService and ByteVector/ByteView are collaborators whose code   *)
(* is not part of DeviceBridge.cpp; they are modelled from the design      *)
(* document (header layout, outgoing id counter, reassembly buffer).       *)
(***************************************************************************)
EXTENDS Integers, Sequences, FiniteSets, TLC

(***************************************************************************)
(* Bounds of the model.                                                    *)
(***************************************************************************)
\* longest logical packet handed to OnPassNetworkPacket
MaxLen == 17
\* number of bridge calls (sends, connector commands, run commands) started
MaxOps == 3
\* no-progress answers the transport gives during one send
MaxRetries == 2
\* number of PassNetworkPacket calls
MaxRx == 5
\* number of Detach calls
MaxDetach == 2
\* exceptions thrown into the worker loop by the sleep or by OnReceive
MaxFailures == 2

\* QualityOfService::s_HeaderSize: three uint32_t fields
s_HeaderSize == 12
\* QualityOfService::s_MinFrameSize
s_MinFrameSize == 20

Threads == {"t1", "t2"}
NoThread == "none"
\* the worker threads that StartUpdatingInSeparateThread can spawn, one a call
Workers == {1, 2}

VARIABLES
    m_IsNegotiationChannel,  \* fixed at construction
    m_IsSlave,               \* fixed at construction
    m_ProtectWriteInConcurrentThreads, \* the write mutex: its holder, or NoThread
    m_OutgouingPacketId,     \* m_QoS: the outgoing message id counter
    m_ReciveQueue,           \* m_QoS: message id -> [size, chunks: chunk id -> payload]
    m_Surfaced,              \* m_QoS: message ids already handed out by GetNextPacket
    pc,                      \* per caller thread: position in the handler it runs
    op,                      \* per caller thread: the handler it runs
    packet,                  \* OnPassNetworkPacket: the ByteView parameter (the bytes left)
    oryginalSize,            \* OnPassNetworkPacket: local
    messageId,               \* OnPassNetworkPacket: local
    chunkId,                 \* OnPassNetworkPacket: local
    data,                    \* OnPassNetworkPacket: the frame offered to the device
    sent,                    \* OnPassNetworkPacket: the device's answer on the negotiation path
    thrown,                  \* per caller thread: the exception that left the handler
    \* ---- history of the run, read by the properties only
    orig,                    \* the packet as it was at entry
    prevData,                \* the frame offered by the previous transport call
    retried,                 \* the previous transport answer was a no-progress one
    retries,                 \* no-progress answers in this send
    taken,                   \* the accepted frames, each cut to the bytes the transport took
    calls,                   \* transport calls made by this send
    accepted,                \* the last accepted answer: sent, and remaining.size() before it
    ticket,                  \* the position of this send in the mutex acquisition order
    nLocks,                  \* mutex acquisitions so far
    idLog,                   \* [ticket, id] of every send that obtained a message id
    deviceLog,               \* what reached the device, in order (runs of equal entries merged)
    nOps,                    \* bridge calls started
    relayLog,                \* packets handed to relay.OnPacketReceived, in order
    lastRx,                  \* the last PassNetworkPacket call: frame, pushed, delivered, before
    rxSeen,                  \* frames passed to PassNetworkPacket so far
    nRx,                     \* PassNetworkPacket calls so far
    \* ---- construction
    args,                    \* the constructor's args parameter
    constructed,             \* "pending", "done", or "threw" when the constructor threw
    m_Did,                   \* fixed at construction
    m_TypeNameHash,          \* fixed at construction
    m_InputId,               \* negotiation channel: first decoded field of args
    m_OutpuId,               \* negotiation channel: second decoded field of args
    m_NonNegotiatiedArguments, \* negotiation channel: what is left of args
    \* ---- life cycle
    m_IsAlive,               \* true from construction, false after Detach
    m_Error,                 \* the error status string
    attached,                \* the device holds the back-reference given by OnAttach
    worker,                  \* per worker thread: its position in the update loop
    logMessages,             \* what reached Relay::Log, in order: [severity, did, text]
    \* ---- history of the life cycle, read by the properties only
    nStarts,                 \* StartUpdatingInSeparateThread calls so far
    nDetach,                 \* Detach calls so far
    nFailures,               \* exceptions thrown into the worker loop so far
    faulted,                 \* per worker: ended by a structured exception
    received,                \* per worker: it has called OnReceive
    afterDetach,             \* per worker: OnReceive calls begun after a Detach returned
    detachedInReceive,       \* per worker: a Detach returned while it was inside OnReceive
    detachedAt               \* the number of bridge calls started (nOps) before the first Detach

sendVars == <<m_ProtectWriteInConcurrentThreads, m_OutgouingPacketId, pc, op, packet,
              oryginalSize, messageId, chunkId, data, sent, thrown, orig, prevData,
              retried, retries, taken, calls, accepted, ticket, nLocks, idLog, deviceLog,
              nOps>>
recvVars == <<m_ReciveQueue, m_Surfaced, relayLog, lastRx, rxSeen, nRx>>
cfgVars  == <<m_IsNegotiationChannel, m_IsSlave>>
ctorVars == <<args, constructed, m_Did, m_TypeNameHash, m_InputId, m_OutpuId,
              m_NonNegotiatiedArguments>>
lifeVars == <<m_IsAlive, m_Error, attached, worker, logMessages, nStarts, nDetach,
              nFailures, faulted, received, afterDetach, detachedInReceive, detachedAt>>
vars == <<cfgVars, sendVars, recvVars, ctorVars, lifeVars>>

(***************************************************************************)
(* ByteVector: the uint32_t codec and the chunk header.                    *)
(***************************************************************************)
\* ByteVector::Write(uint32_t): four bytes, least significant first
\* (the counters of the model stay far below 2^31, so no uint32_t wraps here)
WriteU32(x) ==
    <<x % 256, (x \div 256) % 256, (x \div 65536) % 256, (x \div 16777216) % 256>>

\* ByteView::Read<uint32_t> at byte offset off (0-based)
ReadU32(bytes, off) ==
    bytes[off + 1] + 256 * bytes[off + 2] + 65536 * bytes[off + 3]
        + 16777216 * bytes[off + 4]

\* the logical packets handed to the bridge: n bytes, byte i holding i mod 256
Payload(n) == [i \in 1..n |-> (i - 1) % 256]

Drop(s, n) == SubSeq(s, n + 1, Len(s))


(***************************************************************************)
(* The outcomes of a handler and the exception a handler may leave by.     *)
(***************************************************************************)
NoException == [kind |-> "none", size |-> 0, sent |-> 0]
\* std::runtime_error "Negotiation channel does not support chunking. Packet size: .. Channel sent: .."
NegotiationChunkingError(size, s) == [kind |-> "negotiation-chunking", size |-> size, sent |-> s]

Resting == {"idle", "done", "threw"}

\* an entry of deviceLog is appended unless it repeats the last one
Reach(log, e) == IF Len(log) > 0 /\ log[Len(log)] = e THEN log ELSE Append(log, e)
FrameEntry(frame) == [kind |-> "frame", id |-> ReadU32(frame, 0)]
RawEntry == [kind |-> "raw", id |-> 0]
CommandEntry == [kind |-> "command", id |-> 0]
RunEntry == [kind |-> "run", id |-> 0]

\* the transport's answer s to an offered frame asks for the frame again
NoProgressAnswer(s, frame) == s < s_MinFrameSize /\ s < Len(frame)

(***************************************************************************)
(* The decisions of DeviceBridge.cpp.                                      *)
(***************************************************************************)
\* (a send that does not wait for the mutex)
CanLockToSend_NoWait == TRUE

\* OnPassNetworkPacket: std::lock_guard<std::mutex> waits until the mutex is free
CanLockToSend == m_ProtectWriteInConcurrentThreads = NoThread

\* (a connector command that does not wait for the mutex)
CanLockToCommand_NoWait == TRUE

\* OnCommandFromConnector: std::lock_guard<std::mutex> waits until the mutex is free
CanLockToCommand == m_ProtectWriteInConcurrentThreads = NoThread

\* (a lock taken for one chunk only)
LockHeldInLoop_PerChunk(t) == NoThread

\* OnPassNetworkPacket: the lock_guard lives to the end of the function, so the
\* mutex stays with thread t from one chunk to the next
LockHeldInLoop(t) == t

\* (the test of PassNetworkPacket copied to the send path)
SkipsChunkingOnSend_InitiatorOnly == m_IsNegotiationChannel /\ ~m_IsSlave

\* OnPassNetworkPacket: if (m_IsNegotiationChannel)
SkipsChunkingOnSend == m_IsNegotiationChannel

\* (a bridge that only refuses an empty transmission)
NegotiationSendOk_AnyBytes(s, pkt) == s > 0 \/ s = Len(pkt)

\* OnPassNetworkPacket: if (sent != packet.size()) throw
NegotiationSendOk(s, pkt) == s = Len(pkt)

\* (a header whose size field is taken from the bytes left)
BuildFrame_SizeOfRest(mid, cid, osz, pkt) ==
    WriteU32(mid) \o WriteU32(cid) \o WriteU32(Len(pkt)) \o pkt

\* OnPassNetworkPacket: ByteVector{}.Write(messageId, chunkId, oryginalSize).Concat(packet)
BuildFrame(mid, cid, osz, pkt) == WriteU32(mid) \o WriteU32(cid) \o WriteU32(osz) \o pkt

\* (a test against the header size instead of the minimal frame size)
ChunkAccepted_FromHeaderSize(s, frame) == s >= s_HeaderSize \/ s = Len(frame)

\* (a test that takes any answer carrying payload for progress)
ChunkAccepted_AnyPayload(s, frame) == s > s_HeaderSize

\* OnPassNetworkPacket: if (sent >= s_MinFrameSize || sent == data.size())
ChunkAccepted(s, frame) == s >= s_MinFrameSize \/ s = Len(frame)

\* OnPassNetworkPacket: chunkId++
NextChunkId(c) == c + 1

\* (a cursor moved to the end of the packet after the first accepted chunk)
RemovePrefix_ToTheEnd(pkt, s) == <<>>

\* (a cursor that counts the header bytes as payload)
RemovePrefix_WithHeader(pkt, s) == Drop(pkt, s)

\* OnPassNetworkPacket: packet.remove_prefix(sent - s_HeaderSize)
RemovePrefix(pkt, s) == Drop(pkt, s - s_HeaderSize)

\* (a mutex locked by hand and not unlocked on the way out of an exception)
ReleasedByUnwinding_Leaked(t) == t

\* the lock_guard is a local of the handler: its destructor unlocks the mutex
\* when an exception unwinds the handler of thread t
ReleasedByUnwinding(t) == NoThread

(***************************************************************************)
(* The constructor.  ByteView::Read is the length-prefix codec of the      *)
(* design document: a uint32 length, then that many bytes.                 *)
(***************************************************************************)
\* ByteVector::Write(ByteVector): the length, then the bytes
WriteByteVector(v) == WriteU32(Len(v)) \o v

\* ByteView::Read<ByteVector>(): the field at the front of the view and the view
\* moved past it; not ok (std::out_of_range) when the view is too short
ReadByteVector(view) ==
    IF Len(view) < Len(WriteU32(0))
    THEN [ok |-> FALSE, value |-> <<>>, rest |-> view]
    ELSE LET n == ReadU32(view, 0)
             body == Drop(view, Len(WriteU32(0)))
         IN  IF Len(body) < n
             THEN [ok |-> FALSE, value |-> <<>>, rest |-> view]
             ELSE [ok |-> TRUE, value |-> SubSeq(body, 1, n), rest |-> Drop(body, n)]

ParsesArguments_Always(isNegotiationChannel) == TRUE

\* if (!isNegotiationChannel) return;
ParsesArguments(isNegotiationChannel) == isNegotiationChannel

\* what the constructor leaves in the three members, and whether it threw
Constructor(isNegotiationChannel, a) ==
    LET empty == [m_InputId |-> <<>>, m_OutpuId |-> <<>>,
                  m_NonNegotiatiedArguments |-> <<>>, thrown |-> FALSE]
        first == ReadByteVector(a)
        second == ReadByteVector(first.rest)
    IN  IF ~ParsesArguments(isNegotiationChannel) THEN empty
        ELSE IF ~first.ok \/ ~second.ok THEN [empty EXCEPT !.thrown = TRUE]
        ELSE [m_InputId |-> first.value, m_OutpuId |-> second.value,
              m_NonNegotiatiedArguments |-> second.rest, thrown |-> FALSE]

\* the ids the constructor is handed
DeviceIds == {5}
TypeNameHashes == {77}
\* the args of a bridge in use: none, or two empty ids on a negotiation channel
DefaultArgs(isNegotiationChannel) ==
    IF isNegotiationChannel THEN WriteByteVector(<<>>) \o WriteByteVector(<<>>) ELSE <<>>

\* the args the constructor is tried on: two encoded ids and a rest, and every
\* truncation of such a buffer
Ids == {<<>>, <<7>>, <<7, 8>>}
Rests == {<<>>, <<9>>, <<1, 0, 0, 0, 9>>}
ArgBuffers ==
    UNION {{SubSeq(s, 1, k) : k \in 0..Len(s)} :
           s \in {WriteByteVector(a) \o WriteByteVector(b) \o r :
                   a \in Ids, b \in Ids, r \in Rests}}

(***************************************************************************)
(* The members as the initializer list and the in-class initializers leave *)
(* them, for each pair of flags.                                           *)
(***************************************************************************)
Members ==
    /\ m_Did \in DeviceIds
    /\ m_TypeNameHash \in TypeNameHashes
    /\ m_IsAlive = TRUE
    /\ m_Error = ""
    /\ attached = FALSE
    /\ worker = [w \in Workers |-> "unborn"]
    /\ logMessages = <<>>
    /\ nStarts = 0
    /\ nDetach = 0
    /\ nFailures = 0
    /\ faulted = [w \in Workers |-> FALSE]
    /\ received = [w \in Workers |-> FALSE]
    /\ afterDetach = [w \in Workers |-> "none"]
    /\ detachedInReceive = [w \in Workers |-> FALSE]
    /\ detachedAt = 0
    /\ m_IsNegotiationChannel \in BOOLEAN
    /\ m_IsSlave \in BOOLEAN
    /\ m_ProtectWriteInConcurrentThreads = NoThread
    /\ m_OutgouingPacketId = 0
    /\ m_ReciveQueue = <<>>
    /\ m_Surfaced = {}
    /\ pc = [t \in Threads |-> "idle"]
    /\ op = [t \in Threads |-> "none"]
    /\ packet = [t \in Threads |-> <<>>]
    /\ oryginalSize = [t \in Threads |-> 0]
    /\ messageId = [t \in Threads |-> 0]
    /\ chunkId = [t \in Threads |-> 0]
    /\ data = [t \in Threads |-> <<>>]
    /\ sent = [t \in Threads |-> 0]
    /\ thrown = [t \in Threads |-> NoException]
    /\ orig = [t \in Threads |-> <<>>]
    /\ prevData = [t \in Threads |-> <<>>]
    /\ retried = [t \in Threads |-> FALSE]
    /\ retries = [t \in Threads |-> 0]
    /\ taken = [t \in Threads |-> <<>>]
    /\ calls = [t \in Threads |-> 0]
    /\ accepted = [t \in Threads |-> [sent |-> 0, size |-> 0]]
    /\ ticket = [t \in Threads |-> 0]
    /\ nLocks = 0
    /\ idLog = <<>>
    /\ deviceLog = <<>>
    /\ nOps = 0
    /\ relayLog = <<>>
    /\ lastRx = [frame |-> <<>>, pushed |-> FALSE, delivered |-> <<>>, before |-> {}]
    /\ rxSeen = {}
    /\ nRx = 0

(***************************************************************************)
(* Init: the bridge after a construction that did not throw.               *)
(***************************************************************************)
Init ==
    /\ Members
    /\ args = DefaultArgs(m_IsNegotiationChannel)
    /\ constructed = "done"
    /\ m_InputId = Constructor(m_IsNegotiationChannel, args).m_InputId
    /\ m_OutpuId = Constructor(m_IsNegotiationChannel, args).m_OutpuId
    /\ m_NonNegotiatiedArguments =
           Constructor(m_IsNegotiationChannel, args).m_NonNegotiatiedArguments

\* the bridge about to be constructed on some args
CtorInit ==
    /\ Members
    /\ args \in ArgBuffers
    /\ constructed = "pending"
    /\ m_InputId = <<>>
    /\ m_OutpuId = <<>>
    /\ m_NonNegotiatiedArguments = <<>>

\* the body of the constructor
Construct ==
    /\ constructed = "pending"
    /\ LET r == Constructor(m_IsNegotiationChannel, args)
       IN  /\ constructed' = IF r.thrown THEN "threw" ELSE "done"
           /\ m_InputId' = r.m_InputId
           /\ m_OutpuId' = r.m_OutpuId
           /\ m_NonNegotiatiedArguments' = r.m_NonNegotiatiedArguments
    /\ UNCHANGED <<args, m_Did, m_TypeNameHash, cfgVars, sendVars, recvVars, lifeVars>>

CtorSpec == CtorInit /\ [][Construct]_vars

(***************************************************************************)
(* A caller thread enters a handler.                                       *)
(***************************************************************************)
Enter(t, handler, pos, pkt) ==
    /\ pc[t] \in Resting
    /\ nOps < MaxOps
    /\ nOps' = nOps + 1
    /\ pc' = [pc EXCEPT ![t] = pos]
    /\ op' = [op EXCEPT ![t] = handler]
    /\ packet' = [packet EXCEPT ![t] = pkt]
    /\ orig' = [orig EXCEPT ![t] = pkt]
    /\ oryginalSize' = [oryginalSize EXCEPT ![t] = 0]
    /\ messageId' = [messageId EXCEPT ![t] = 0]
    /\ chunkId' = [chunkId EXCEPT ![t] = 0]
    /\ data' = [data EXCEPT ![t] = <<>>]
    /\ sent' = [sent EXCEPT ![t] = 0]
    /\ thrown' = [thrown EXCEPT ![t] = NoException]
    /\ prevData' = [prevData EXCEPT ![t] = <<>>]
    /\ retried' = [retried EXCEPT ![t] = FALSE]
    /\ retries' = [retries EXCEPT ![t] = 0]
    /\ taken' = [taken EXCEPT ![t] = <<>>]
    /\ calls' = [calls EXCEPT ![t] = 0]
    /\ accepted' = [accepted EXCEPT ![t] = [sent |-> 0, size |-> 0]]
    /\ ticket' = [ticket EXCEPT ![t] = 0]

\* OnPassNetworkPacket(packet) is called; the caller waits for the mutex
CallOnPassNetworkPacket(t, n) ==
    /\ Enter(t, "send", "lock", Payload(n))
    /\ UNCHANGED <<m_ProtectWriteInConcurrentThreads, m_OutgouingPacketId, nLocks, idLog,
                   deviceLog, cfgVars, recvVars, ctorVars, lifeVars>>

\* OnCommandFromConnector(command) is called; the caller waits for the mutex
CallOnCommandFromConnector(t) ==
    /\ Enter(t, "command", "lock", <<>>)
    /\ UNCHANGED <<m_ProtectWriteInConcurrentThreads, m_OutgouingPacketId, nLocks, idLog,
                   deviceLog, cfgVars, recvVars, ctorVars, lifeVars>>

\* RunCommand(command): GetDevice()->OnRunCommand(command) begins, no mutex taken
CallRunCommand(t) ==
    /\ Enter(t, "run", "inRun", <<>>)
    /\ deviceLog' = Reach(deviceLog, RunEntry)
    /\ UNCHANGED <<m_ProtectWriteInConcurrentThreads, m_OutgouingPacketId, nLocks, idLog,
                   cfgVars, recvVars, ctorVars, lifeVars>>

\* RunCommand: OnRunCommand returns
ReturnRunCommand(t) ==
    /\ pc[t] = "inRun"
    /\ pc' = [pc EXCEPT ![t] = "done"]
    /\ UNCHANGED <<accepted, sent, m_ProtectWriteInConcurrentThreads, m_OutgouingPacketId, op, packet,
                   oryginalSize, messageId, chunkId, data, thrown, orig, prevData,
                   retried, retries, taken, calls, ticket, nLocks, idLog, deviceLog, nOps,
                   cfgVars, recvVars, ctorVars, lifeVars>>

(***************************************************************************)
(* OnCommandFromConnector.                                                 *)
(***************************************************************************)
\* lock_guard taken, GetDevice()->OnCommandFromConnector(command) begins
LockOnCommandFromConnector(t) ==
    /\ pc[t] = "lock" /\ op[t] = "command"
    /\ CanLockToCommand
    /\ m_ProtectWriteInConcurrentThreads' = t
    /\ nLocks' = nLocks + 1
    /\ ticket' = [ticket EXCEPT ![t] = nLocks + 1]
    /\ deviceLog' = Reach(deviceLog, CommandEntry)
    /\ pc' = [pc EXCEPT ![t] = "inCommand"]
    /\ UNCHANGED <<accepted, sent, m_OutgouingPacketId, op, packet, oryginalSize, messageId, chunkId, data,
                   thrown, orig, prevData, retried, retries, taken, calls, idLog,
                   nOps, cfgVars, recvVars, ctorVars, lifeVars>>

\* the device's OnCommandFromConnector returns, the lock_guard is destroyed
ReturnOnCommandFromConnector(t) ==
    /\ pc[t] = "inCommand"
    /\ m_ProtectWriteInConcurrentThreads' = NoThread
    /\ pc' = [pc EXCEPT ![t] = "done"]
    /\ UNCHANGED <<accepted, sent, m_OutgouingPacketId, op, packet, oryginalSize, messageId, chunkId, data,
                   thrown, orig, prevData, retried, retries, taken, calls, ticket,
                   nLocks, idLog, deviceLog, nOps, cfgVars, recvVars, ctorVars, lifeVars>>

(***************************************************************************)
(* OnPassNetworkPacket.                                                    *)
(***************************************************************************)
\* lock_guard taken; the negotiation test chooses the path
LockOnPassNetworkPacket(t) ==
    /\ pc[t] = "lock" /\ op[t] = "send"
    /\ CanLockToSend
    /\ m_ProtectWriteInConcurrentThreads' = t
    /\ nLocks' = nLocks + 1
    /\ ticket' = [ticket EXCEPT ![t] = nLocks + 1]
    /\ pc' = [pc EXCEPT ![t] = IF SkipsChunkingOnSend THEN "negotiation" ELSE "readId"]
    /\ UNCHANGED <<accepted, sent, m_OutgouingPacketId, op, packet, oryginalSize, messageId, chunkId, data,
                   thrown, orig, prevData, retried, retries, taken, calls, idLog,
                   deviceLog, nOps, cfgVars, recvVars, ctorVars, lifeVars>>

\* negotiation channel: GetDevice()->OnSendToChannelInternal(packet) begins
OfferRawPacket(t) ==
    /\ pc[t] = "negotiation"
    /\ data' = [data EXCEPT ![t] = packet[t]]
    /\ prevData' = [prevData EXCEPT ![t] = data[t]]
    /\ calls' = [calls EXCEPT ![t] = calls[t] + 1]
    /\ deviceLog' = Reach(deviceLog, RawEntry)
    /\ pc' = [pc EXCEPT ![t] = "inRawSend"]
    /\ UNCHANGED <<accepted, sent, m_ProtectWriteInConcurrentThreads, m_OutgouingPacketId, op, packet,
                   oryginalSize, messageId, chunkId, thrown, orig, retried, retries,
                   taken, ticket, nLocks, idLog, nOps, cfgVars, recvVars, ctorVars, lifeVars>>

\* negotiation channel: the transport answers s; throw unless the whole packet went
ReturnRawPacket(t, s) ==
    /\ pc[t] = "inRawSend"
    /\ s \in 0..Len(data[t])
    /\ sent' = [sent EXCEPT ![t] = s]
    /\ IF NegotiationSendOk(s, packet[t])
       THEN /\ pc' = [pc EXCEPT ![t] = "done"]
            /\ UNCHANGED thrown
       ELSE /\ pc' = [pc EXCEPT ![t] = "threw"]
            /\ thrown' = [thrown EXCEPT ![t] = NegotiationChunkingError(Len(packet[t]), s)]
    /\ m_ProtectWriteInConcurrentThreads' = NoThread
    /\ UNCHANGED <<accepted, m_OutgouingPacketId, op, packet, oryginalSize, messageId, chunkId, data,
                   orig, prevData, retried, retries, taken, calls, ticket, nLocks, idLog,
                   deviceLog, nOps, cfgVars, recvVars, ctorVars, lifeVars>>

\* oryginalSize = packet.size(); m_QoS.GetOutgouingPacketId() reads the counter
ReadOutgouingPacketId(t) ==
    /\ pc[t] = "readId"
    /\ oryginalSize' = [oryginalSize EXCEPT ![t] = Len(packet[t])]
    /\ messageId' = [messageId EXCEPT ![t] = m_OutgouingPacketId]
    /\ pc' = [pc EXCEPT ![t] = "writeId"]
    /\ UNCHANGED <<accepted, sent, m_ProtectWriteInConcurrentThreads, m_OutgouingPacketId, op, packet,
                   chunkId, data, thrown, orig, prevData, retried, retries, taken,
                   calls, ticket, nLocks, idLog, deviceLog, nOps, cfgVars, recvVars, ctorVars, lifeVars>>

\* GetOutgouingPacketId() stores the incremented counter; chunkId = 0; the first
\* test of while (!packet.empty()), which ends the send of an empty packet
WriteOutgouingPacketId(t) ==
    /\ pc[t] = "writeId"
    /\ m_OutgouingPacketId' = messageId[t] + 1
    /\ chunkId' = [chunkId EXCEPT ![t] = 0]
    /\ idLog' = Append(idLog, [ticket |-> ticket[t], id |-> messageId[t]])
    /\ IF packet[t] = <<>>
       THEN /\ pc' = [pc EXCEPT ![t] = "done"]
            /\ m_ProtectWriteInConcurrentThreads' = NoThread
       ELSE /\ pc' = [pc EXCEPT ![t] = "loop"]
            /\ UNCHANGED m_ProtectWriteInConcurrentThreads
    /\ UNCHANGED <<accepted, sent, op, packet, oryginalSize, messageId, data, thrown, orig, prevData,
                   retried, retries, taken, calls, ticket, nLocks, deviceLog, nOps,
                   cfgVars, recvVars, ctorVars, lifeVars>>

\* the loop body up to the call: the frame is built and offered to the transport
OfferChunk(t) ==
    /\ pc[t] = "loop"
    /\ LET frame == BuildFrame(messageId[t], chunkId[t], oryginalSize[t], packet[t])
       IN  /\ data' = [data EXCEPT ![t] = frame]
           /\ deviceLog' = Reach(deviceLog, FrameEntry(frame))
    /\ prevData' = [prevData EXCEPT ![t] = data[t]]
    /\ calls' = [calls EXCEPT ![t] = calls[t] + 1]
    /\ pc' = [pc EXCEPT ![t] = "inSend"]
    /\ UNCHANGED <<accepted, sent, m_ProtectWriteInConcurrentThreads, m_OutgouingPacketId, op, packet,
                   oryginalSize, messageId, chunkId, thrown, orig, retried, retries,
                   taken, ticket, nLocks, idLog, nOps, cfgVars, recvVars, ctorVars, lifeVars>>

\* the transport answers s; the chunk is accepted or offered again; the loop test
ReturnChunk(t, s) ==
    /\ pc[t] = "inSend"
    /\ s \in 0..Len(data[t])
    /\ NoProgressAnswer(s, data[t]) => retries[t] < MaxRetries
    /\ retried' = [retried EXCEPT ![t] = NoProgressAnswer(s, data[t])]
    /\ retries' = [retries EXCEPT ![t] = IF NoProgressAnswer(s, data[t]) THEN @ + 1 ELSE @]
    /\ taken' = [taken EXCEPT ![t] = IF NoProgressAnswer(s, data[t])
                                     THEN @ ELSE Append(@, SubSeq(data[t], 1, s))]
    /\ accepted' = [accepted EXCEPT ![t] = IF ChunkAccepted(s, data[t])
                                           THEN [sent |-> s, size |-> Len(packet[t])]
                                           ELSE @]
    /\ LET left == IF ChunkAccepted(s, data[t]) THEN RemovePrefix(packet[t], s)
                                                ELSE packet[t]
       IN  /\ packet' = [packet EXCEPT ![t] = left]
           /\ chunkId' = [chunkId EXCEPT ![t] = IF ChunkAccepted(s, data[t])
                                                THEN NextChunkId(@) ELSE @]
           /\ IF left = <<>>
              THEN /\ pc' = [pc EXCEPT ![t] = "done"]
                   /\ m_ProtectWriteInConcurrentThreads' = NoThread
              ELSE /\ pc' = [pc EXCEPT ![t] = "loop"]
                   /\ m_ProtectWriteInConcurrentThreads' = LockHeldInLoop(t)
    /\ UNCHANGED <<sent, m_OutgouingPacketId, op, oryginalSize, messageId, data, thrown, orig,
                   prevData, calls, ticket, nLocks, idLog, deviceLog, nOps, cfgVars,
                   recvVars, ctorVars, lifeVars>>

\* the calls of the caller threads T, sends taking packets of the lengths L
SendNext(T, L) ==
    \/ \E t \in T, n \in L : CallOnPassNetworkPacket(t, n)
    \/ \E t \in T : CallOnCommandFromConnector(t)
    \/ \E t \in T : CallRunCommand(t)
    \/ \E t \in T : ReturnRunCommand(t)
    \/ \E t \in T : LockOnCommandFromConnector(t)
    \/ \E t \in T : ReturnOnCommandFromConnector(t)
    \/ \E t \in T : LockOnPassNetworkPacket(t)
    \/ \E t \in T : OfferRawPacket(t)
    \/ \E t \in T, s \in 0..(MaxLen + s_HeaderSize) : ReturnRawPacket(t, s)
    \/ \E t \in T : ReadOutgouingPacketId(t)
    \/ \E t \in T : WriteOutgouingPacketId(t)
    \/ \E t \in T : OfferChunk(t)
    \/ \E t \in T, s \in 0..(MaxLen + s_HeaderSize) : ReturnChunk(t, s)

\* one caller, every packet length: the chunking of a send in full
OneCaller == {"t1"}
SendSpec == Init /\ [][SendNext(OneCaller, 0..MaxLen)]_vars

\* concurrent callers: the empty packet, a one-chunk packet, the shortest packet
\* that the transport can split in two
ConcurrentLens == {0, 1, s_MinFrameSize - s_HeaderSize + 1}
ConcurrentSpec == Init /\ [][SendNext(Threads, ConcurrentLens)]_vars

\* what the device throws out of OnSendToChannelInternal or OnCommandFromConnector
DeviceException == [kind |-> "device", size |-> 0, sent |-> 0]

\* the exception unwinds the handler of thread t and reaches its caller
Unwind(t) ==
    /\ pc' = [pc EXCEPT ![t] = "threw"]
    /\ thrown' = [thrown EXCEPT ![t] = DeviceException]
    /\ m_ProtectWriteInConcurrentThreads' = ReleasedByUnwinding(t)
    /\ UNCHANGED <<m_OutgouingPacketId, op, packet, oryginalSize, messageId, chunkId, data,
                   sent, orig, prevData, retried, retries, taken, calls, accepted, ticket,
                   nLocks, idLog, deviceLog, nOps, cfgVars, recvVars, ctorVars, lifeVars>>

\* GetDevice()->OnSendToChannelInternal throws, on the negotiation path or in the loop
ThrowFromOnSendToChannelInternal(t) ==
    /\ pc[t] \in {"inRawSend", "inSend"}
    /\ Unwind(t)

\* GetDevice()->OnCommandFromConnector throws
ThrowFromOnCommandFromConnector(t) ==
    /\ pc[t] = "inCommand"
    /\ Unwind(t)

\* the calls of the caller threads T, with a device that may throw
FailingNext(T, L) ==
    \/ SendNext(T, L)
    \/ \E t \in T : ThrowFromOnSendToChannelInternal(t)
    \/ \E t \in T : ThrowFromOnCommandFromConnector(t)

FailingSpec == Init /\ [][FailingNext(Threads, ConcurrentLens)]_vars

(***************************************************************************)
(* QualityOfService, the receive side: the reassembly buffer.              *)
(***************************************************************************)
\* the header of a received frame and the payload behind it
ParseHeader(frame) ==
    [messageId |-> ReadU32(frame, 0), chunkId |-> ReadU32(frame, 4),
     oryginalSize |-> ReadU32(frame, 8), payload |-> Drop(frame, s_HeaderSize)]

RECURSIVE BufferedSize(_, _)
\* the bytes buffered under the chunk ids ids
BufferedSize(chunks, ids) ==
    IF ids = {} THEN 0
    ELSE LET c == CHOOSE c \in ids : TRUE
         IN  Len(chunks[c]) + BufferedSize(chunks, ids \ {c})

RECURSIVE JoinChunks(_, _)
\* the payloads buffered under the chunk ids ids, joined in chunk id order
JoinChunks(chunks, ids) ==
    IF ids = {} THEN <<>>
    ELSE LET c == CHOOSE c \in ids : \A d \in ids : c <= d
         IN  chunks[c] \o JoinChunks(chunks, ids \ {c})

\* a buffered message holds all of its bytes
IsReady(entry) == BufferedSize(entry.chunks, DOMAIN entry.chunks) = entry.size

\* QualityOfService::PushReceivedChunk: the queue after the frame is buffered under
\* (message id, chunk id); a chunk already buffered, or of a message already
\* handed out, changes nothing
PushReceivedChunk(queue, surfaced, frame) ==
    LET h == ParseHeader(frame)
    IN  IF h.messageId \in surfaced THEN queue
        ELSE IF h.messageId \notin DOMAIN queue
        THEN queue @@ (h.messageId :> [size |-> h.oryginalSize,
                                       chunks |-> (h.chunkId :> h.payload)])
        ELSE IF h.chunkId \in DOMAIN queue[h.messageId].chunks THEN queue
        ELSE [queue EXCEPT ![h.messageId].chunks = @ @@ (h.chunkId :> h.payload)]

\* QualityOfService::GetNextPacket: a message that is ready leaves the queue and is
\* returned whole; with none ready the packet returned is empty
GetNextPacket(queue, surfaced) ==
    LET ready == {m \in DOMAIN queue : IsReady(queue[m])}
    IN  IF ready = {}
        THEN [packet |-> <<>>, queue |-> queue, surfaced |-> surfaced]
        ELSE LET m == CHOOSE m \in ready : \A k \in ready : m <= k
             IN  [packet |-> JoinChunks(queue[m].chunks, DOMAIN queue[m].chunks),
                  queue |-> [k \in DOMAIN queue \ {m} |-> queue[k]],
                  surfaced |-> surfaced \cup {m}]

(***************************************************************************)
(* PassNetworkPacket.                                                      *)
(***************************************************************************)
\* (a test that forgets the slave side)
SkipsChunkingOnReceive_AnySide == m_IsNegotiationChannel

\* PassNetworkPacket: if (m_IsNegotiationChannel && !m_IsSlave)
SkipsChunkingOnReceive == m_IsNegotiationChannel /\ ~m_IsSlave

\* (a relay call made whatever GetNextPacket returned)
HasNextPacket_Always(nextPacket) == TRUE

\* PassNetworkPacket: if (!nextPacket.empty())
HasNextPacket(nextPacket) == nextPacket # <<>>

\* the frames a peer's bridge emits for two logical packets, the first cut in three
\* chunks and the second in two
PacketA == <<10, 11, 12, 13, 14, 15>>
PacketB == <<20, 21>>
ChunksA == {BuildFrame(7, 0, Len(PacketA), <<10, 11>>),
            BuildFrame(7, 1, Len(PacketA), <<12>>),
            BuildFrame(7, 2, Len(PacketA), <<13, 14, 15>>)}
ChunksB == {BuildFrame(8, 0, Len(PacketB), <<20>>),
            BuildFrame(8, 1, Len(PacketB), <<21>>)}
\* what a negotiating peer sends: a frame that holds no header
RawFrames == {<<1, 2, 3>>}

\* the whole of PassNetworkPacket(frame), called by the device
PassNetworkPacket(frame) ==
    /\ nRx < MaxRx
    /\ Len(frame) < s_HeaderSize => (m_IsNegotiationChannel /\ ~m_IsSlave)
    /\ nRx' = nRx + 1
    /\ rxSeen' = rxSeen \cup {frame}
    /\ IF SkipsChunkingOnReceive
       THEN /\ relayLog' = Append(relayLog, frame)
            /\ lastRx' = [frame |-> frame, pushed |-> FALSE, delivered |-> <<frame>>,
                          before |-> rxSeen]
            /\ UNCHANGED <<m_ReciveQueue, m_Surfaced>>
       ELSE LET pushed == PushReceivedChunk(m_ReciveQueue, m_Surfaced, frame)
                next == GetNextPacket(pushed, m_Surfaced)
            IN  /\ m_ReciveQueue' = next.queue
                /\ m_Surfaced' = next.surfaced
                /\ relayLog' = IF HasNextPacket(next.packet)
                               THEN Append(relayLog, next.packet) ELSE relayLog
                /\ lastRx' = [frame |-> frame, pushed |-> TRUE,
                              delivered |-> IF HasNextPacket(next.packet)
                                            THEN <<next.packet>> ELSE <<>>,
                              before |-> rxSeen]
    /\ UNCHANGED <<cfgVars, sendVars, ctorVars, lifeVars>>

\* the frames F arrive, in any order and any number of times
RecvNext(F) == \E frame \in F : PassNetworkPacket(frame)

RecvSpec == Init /\ [][RecvNext(ChunksA \cup ChunksB \cup RawFrames)]_vars

\* the bridge as a whole: a caller, the transport and the frames of one arriving
\* packet (the two directions share no state but the construction flags)
Next ==
    \/ SendNext(OneCaller, ConcurrentLens)
    \/ RecvNext(ChunksB)

Spec == Init /\ [][Next]_vars

(***************************************************************************)
(* The life cycle: OnAttach, SetErrorStatus, Detach,                       *)
(* StartUpdatingInSeparateThread and the loop of the thread it spawns.     *)
(* A worker is "unborn", at the loop "test", in the "sleep", inside        *)
(* "receive" (DeviceBridge::OnReceive), or "exited".                       *)
(***************************************************************************)
\* DeviceBridge::Log: GetRelay()->Log(message, GetDid()), severity Error
ErrorLogEntry(text) == [severity |-> "Error", did |-> m_Did, text |-> text]

StdExceptionText == "std::exception while updating: what"
UnknownExceptionText == "Unknown exception while updating."
SignalText == "Signal captured, ending thread execution."
ErrorMessages == {"", "failed"}

AliveAfterDetach_Toggled == ~m_IsAlive

\* m_IsAlive = false;
AliveAfterDetach == FALSE

LoopContinues_Always == TRUE

LoopContinues_Never == FALSE

\* while (m_IsAlive)
LoopContinues == m_IsAlive

AfterReceive_NextBody == "sleep"

\* OnReceive() is the last statement of the loop body: the condition is tested next
AfterReceive == "test"

AfterCatch_Rethrown == "exited"

\* the handlers are inside the loop body: the loop condition is tested next
AfterCatch == "test"

\* catch (...) { Log({ text, LogMessage::Severity::Error }); }
LogsOnCatch(text) == Append(logMessages, ErrorLogEntry(text))

\* OnAttach(): GetDevice()->OnAttach(shared_from_this())
OnAttach ==
    /\ attached' = TRUE
    /\ UNCHANGED <<m_IsAlive, m_Error, worker, logMessages, nStarts, nDetach, nFailures,
                   faulted, received, afterDetach, detachedInReceive, detachedAt,
                   cfgVars, sendVars, recvVars, ctorVars>>

\* SetErrorStatus(errorMessage)
SetErrorStatus(errorMessage) ==
    /\ m_Error' = errorMessage
    /\ UNCHANGED <<m_IsAlive, attached, worker, logMessages, nStarts, nDetach, nFailures,
                   faulted, received, afterDetach, detachedInReceive, detachedAt,
                   cfgVars, sendVars, recvVars, ctorVars>>

\* Detach(), from any thread and in any state of the workers
Detach ==
    /\ nDetach < MaxDetach
    /\ nDetach' = nDetach + 1
    /\ m_IsAlive' = AliveAfterDetach
    /\ detachedInReceive' =
           [w \in Workers |-> detachedInReceive[w] \/ worker[w] = "receive"]
    /\ detachedAt' = IF nDetach = 0 THEN nOps ELSE detachedAt
    /\ UNCHANGED <<m_Error, attached, worker, logMessages, nStarts, nFailures, faulted,
                   received, afterDetach, cfgVars, sendVars, recvVars, ctorVars>>

\* StartUpdatingInSeparateThread(): std::thread{ ... }.detach(), with nothing
\* tested before it; the next thread of W is spawned, at the loop test
StartUpdatingInSeparateThread(W) ==
    /\ nStarts' = nStarts + 1
    /\ \E w \in W :
           /\ worker[w] = "unborn"
           /\ \A v \in W : v < w => worker[v] # "unborn"
           /\ worker' = [worker EXCEPT ![w] = "test"]
    /\ UNCHANGED <<m_IsAlive, m_Error, attached, logMessages, nDetach, nFailures, faulted,
                   received, afterDetach, detachedInReceive, detachedAt,
                   cfgVars, sendVars, recvVars, ctorVars>>

\* while (m_IsAlive): into the body, or out of the loop and the thread
LoopTest(w) ==
    /\ worker[w] = "test"
    /\ worker' = [worker EXCEPT ![w] = IF LoopContinues THEN "sleep" ELSE "exited"]
    /\ UNCHANGED <<m_IsAlive, m_Error, attached, logMessages, nStarts, nDetach, nFailures,
                   faulted, received, afterDetach, detachedInReceive, detachedAt,
                   cfgVars, sendVars, recvVars, ctorVars>>

\* sleep_for(GetDevice()->GetUpdateDelay()) returns and OnReceive() is called
SleepReturns(w) ==
    /\ worker[w] = "sleep"
    /\ worker' = [worker EXCEPT ![w] = "receive"]
    /\ received' = [received EXCEPT ![w] = TRUE]
    /\ afterDetach' = [afterDetach EXCEPT ![w] =
                          IF nDetach = 0 THEN @ ELSE IF @ = "none" THEN "once" ELSE "more"]
    /\ UNCHANGED <<m_IsAlive, m_Error, attached, logMessages, nStarts, nDetach, nFailures,
                   faulted, detachedInReceive, detachedAt,
                   cfgVars, sendVars, recvVars, ctorVars>>

\* OnReceive() returns: the end of the loop body
ReceiveReturns(w) ==
    /\ worker[w] = "receive"
    /\ worker' = [worker EXCEPT ![w] = AfterReceive]
    /\ UNCHANGED <<m_IsAlive, m_Error, attached, logMessages, nStarts, nDetach, nFailures,
                   faulted, received, afterDetach, detachedInReceive, detachedAt,
                   cfgVars, sendVars, recvVars, ctorVars>>

\* the sleep or OnReceive() throws and one of the two handlers catches
Catch(w, text) ==
    /\ worker[w] \in {"sleep", "receive"}
    /\ nFailures < MaxFailures
    /\ nFailures' = nFailures + 1
    /\ logMessages' = LogsOnCatch(text)
    /\ worker' = [worker EXCEPT ![w] = AfterCatch]
    /\ UNCHANGED <<m_IsAlive, m_Error, attached, nStarts, nDetach, faulted, received,
                   afterDetach, detachedInReceive, detachedAt,
                   cfgVars, sendVars, recvVars, ctorVars>>

\* catch (std::exception const& exception)
CatchStdException(w) == Catch(w, StdExceptionText)

\* catch (...)
CatchUnknownException(w) == Catch(w, UnknownExceptionText)

\* a structured exception in the loop body: SehWrapper runs its second closure,
\* which logs in a _DEBUG build only, and the thread ends
Fault(w, debug) ==
    /\ worker[w] \in {"sleep", "receive"}
    /\ worker' = [worker EXCEPT ![w] = "exited"]
    /\ faulted' = [faulted EXCEPT ![w] = TRUE]
    /\ logMessages' = IF debug THEN Append(logMessages, ErrorLogEntry(SignalText))
                      ELSE logMessages
    /\ UNCHANGED <<m_IsAlive, m_Error, attached, nStarts, nDetach, nFailures, received,
                   afterDetach, detachedInReceive, detachedAt,
                   cfgVars, sendVars, recvVars, ctorVars>>

\* the steps of the worker threads W when nothing is thrown
LoopNext(W) ==
    \/ \E w \in W : LoopTest(w)
    \/ \E w \in W : SleepReturns(w)
    \/ \E w \in W : ReceiveReturns(w)

\* the life cycle calls and the worker threads W
WorkerNext(W) ==
    \/ OnAttach
    \/ \E errorMessage \in ErrorMessages : SetErrorStatus(errorMessage)
    \/ Detach
    \/ StartUpdatingInSeparateThread(W)
    \/ LoopNext(W)
    \/ \E w \in W : CatchStdException(w)
    \/ \E w \in W : CatchUnknownException(w)
    \/ \E w \in W, debug \in BOOLEAN : Fault(w, debug)

WorkerSpec == Init /\ [][WorkerNext(Workers)]_vars

\* the life cycle when nothing is thrown
LiveNext ==
    \/ OnAttach
    \/ Detach
    \/ StartUpdatingInSeparateThread(Workers)
    \/ LoopNext(Workers)

\* every worker thread is scheduled, every sleep ends and every OnReceive() returns
WorkerFairSpec ==
    /\ Init
    /\ [][LiveNext]_vars
    /\ \A w \in Workers :
           WF_vars(LoopTest(w)) /\ WF_vars(SleepReturns(w)) /\ WF_vars(ReceiveReturns(w))

\* one worker, one caller sending a one-byte packet, and the only frame of an
\* arriving one-byte packet, around the Detach calls
LifeWorkers == {1}
LifeFrames == {BuildFrame(9, 0, 1, <<30>>)}
LifeLen == 1
\* the transport takes a whole raw packet (too little of a chunk) or a whole chunk
LifeAnswers == {LifeLen, s_HeaderSize + LifeLen}
LifeNext ==
    \/ Detach
    \/ StartUpdatingInSeparateThread(LifeWorkers)
    \/ LoopNext(LifeWorkers)
    \/ \E t \in OneCaller : CallOnPassNetworkPacket(t, LifeLen)
    \/ \E t \in OneCaller : LockOnPassNetworkPacket(t)
    \/ \E t \in OneCaller : OfferRawPacket(t)
    \/ \E t \in OneCaller, s \in LifeAnswers : ReturnRawPacket(t, s)
    \/ \E t \in OneCaller : ReadOutgouingPacketId(t)
    \/ \E t \in OneCaller : WriteOutgouingPacketId(t)
    \/ \E t \in OneCaller : OfferChunk(t)
    \/ \E t \in OneCaller, s \in LifeAnswers : ReturnChunk(t, s)
    \/ \E t \in OneCaller : CallOnCommandFromConnector(t)
    \/ \E t \in OneCaller : LockOnCommandFromConnector(t)
    \/ \E t \in OneCaller : ReturnOnCommandFromConnector(t)
    \/ RecvNext(LifeFrames)

LifeSpec == Init /\ [][LifeNext]_vars

(***************************************************************************)
(* Properties of the send path.                                            *)
(***************************************************************************)
RECURSIVE JoinByChunkId(_, _)
\* the payloads of the frames at the positions idx, joined in chunk id order
JoinByChunkId(frames, idx) ==
    IF idx = {} THEN <<>>
    ELSE LET key(i) == ParseHeader(frames[i]).chunkId
             i == CHOOSE i \in idx :
                     \A j \in idx : key(i) < key(j) \/ (key(i) = key(j) /\ i <= j)
         IN  ParseHeader(frames[i]).payload \o JoinByChunkId(frames, idx \ {i})

Reassembled(frames) == JoinByChunkId(frames, 1..Len(frames))

\* the message id the send of thread t obtained
ObtainedId(t) == (CHOOSE e \in {idLog[i] : i \in 1..Len(idLog)} : e.ticket = ticket[t]).id

\* C1 (chunking round trip): when the send of a non-empty packet on a
\* non-negotiation bridge has returned and every answer of the transport was at
\* least s_MinFrameSize or the whole frame, the payload bytes the transport took
\* (each frame's bytes after the header, up to the count it returned), joined in
\* chunk id order, are exactly the packet.
C1_ChunkingRoundTrip ==
    \A t \in Threads :
        (/\ op[t] = "send" /\ ~m_IsNegotiationChannel
         /\ pc[t] = "done" /\ orig[t] # <<>> /\ retries[t] = 0)
        => Reassembled(taken[t]) = orig[t]

\* a packet that left in three chunks, none offered twice
C1_Witness ==
    \E t \in Threads :
        /\ op[t] = "send" /\ ~m_IsNegotiationChannel /\ pc[t] = "done"
        /\ retries[t] = 0 /\ Len(taken[t]) = 3 /\ Len(orig[t]) = MaxLen

\* C2 (header consistency): every frame offered to the transport during a send on
\* a non-negotiation bridge carries the message id the send obtained, the length of
\* the whole packet at entry, and a chunk id equal to the number of chunks accepted
\* so far (0 for the first frame, one more after each accepted chunk, the same
\* after an answer that makes no progress).
C2_HeaderConsistency ==
    \A t \in Threads :
        pc[t] = "inSend" =>
            LET h == ParseHeader(data[t])
            IN  /\ h.messageId = ObtainedId(t)
                /\ h.oryginalSize = Len(orig[t])
                /\ h.chunkId = Len(taken[t])

\* the third chunk of a packet is offered, an earlier one having been offered twice
C2_Witness ==
    \E t \in Threads :
        /\ pc[t] = "inSend" /\ Len(taken[t]) = 2 /\ retries[t] >= 1
        /\ ParseHeader(data[t]).chunkId = 2
        /\ ParseHeader(data[t]).messageId >= 1

\* C3 (no-progress retry): an answer below s_MinFrameSize and below the frame size
\* leaves chunkId and the bytes left as they were and does not end the send, and
\* the next frame offered is byte for byte the frame offered before.
C3_NoProgressRetry ==
    [][\A t \in Threads :
          /\ (pc[t] = "inSend" /\ pc'[t] # "inSend" /\ retried'[t])
             => (pc'[t] = "loop" /\ chunkId'[t] = chunkId[t] /\ packet'[t] = packet[t])
          /\ (pc[t] = "loop" /\ retried[t] /\ pc'[t] = "inSend")
             => data'[t] = data[t]]_vars

\* the same frame is on offer again after MaxRetries answers without progress
C3_Witness ==
    \E t \in Threads :
        /\ pc[t] = "inSend" /\ retried[t] /\ retries[t] = MaxRetries
        /\ data[t] = prevData[t] /\ chunkId[t] = 1

\* C4 (negotiation one-shot): a send on a negotiation bridge offers the raw packet
\* to the transport once; an answer other than the packet size ends the send with
\* the negotiation chunking error naming the packet size and the answer, an answer
\* equal to it ends the send normally, and either way no second offer is made.
C4_NegotiationOneShot ==
    \A t \in Threads :
        (op[t] = "send" /\ m_IsNegotiationChannel) =>
            /\ calls[t] <= 1
            /\ pc[t] \in {"inRawSend", "done", "threw"} => (calls[t] = 1 /\ data[t] = orig[t])
            /\ pc[t] = "done" => (sent[t] = Len(orig[t]) /\ thrown[t] = NoException)
            /\ pc[t] = "threw" => /\ sent[t] # Len(orig[t])
                                  /\ thrown[t] = NegotiationChunkingError(Len(orig[t]), sent[t])
            /\ pc[t] \in {"done", "threw"} => m_ProtectWriteInConcurrentThreads = NoThread

\* a slave negotiation bridge whose transport took part of the packet
C4_Witness ==
    \E t \in Threads :
        /\ op[t] = "send" /\ m_IsNegotiationChannel /\ m_IsSlave /\ pc[t] = "threw"
        /\ thrown[t].size = MaxLen /\ thrown[t].sent > 0 /\ thrown[t].sent < MaxLen

(***************************************************************************)
(* Properties of concurrent callers.                                       *)
(***************************************************************************)
\* C5 (message id uniqueness): no two sends obtain the same message id, and a send
\* that took the write mutex earlier obtained the smaller id.
C5_MessageIdUniqueness ==
    \A i, j \in 1..Len(idLog) :
        /\ i # j => idLog[i].id # idLog[j].id
        /\ idLog[i].ticket < idLog[j].ticket => idLog[i].id < idLog[j].id

\* the sends of two threads, the second having waited for the mutex, hold ids 0 and 1
C5_Witness ==
    \E t, u \in Threads :
        /\ t # u /\ op[t] = "send" /\ op[u] = "send"
        /\ ticket[t] = 1 /\ ticket[u] = 2 /\ pc[u] = "inSend"
        /\ Len(idLog) = 2 /\ idLog[1].id = 0 /\ idLog[2].id = 1

\* thread t is inside a call into the device made under the write mutex
InGuardedCall(t) == pc[t] \in {"inSend", "inRawSend", "inCommand"}
\* thread t is inside a call into the device
InDeviceCall(t) == InGuardedCall(t) \/ pc[t] = "inRun"

\* C6 as stated (write serialization, RunCommand included): no two of the calls
\* into the device made by OnPassNetworkPacket, OnCommandFromConnector and
\* RunCommand are in progress at the same time.
C6_AsStated ==
    \A t, u \in Threads : t # u => ~(InDeviceCall(t) /\ InDeviceCall(u))

\* C6 (write serialization): no two of the calls into the device made by
\* OnPassNetworkPacket and OnCommandFromConnector are in progress at the same time,
\* and the thread inside one holds the write mutex; the device's OnRunCommand,
\* called without the mutex, is not part of this.
C6_WriteSerialization ==
    /\ \A t, u \in Threads : t # u => ~(InGuardedCall(t) /\ InGuardedCall(u))
    /\ \A t \in Threads : InGuardedCall(t) => m_ProtectWriteInConcurrentThreads = t

\* a connector command is in the device while a send waits for the mutex
C6_Witness ==
    \E t, u \in Threads :
        /\ t # u /\ pc[t] = "inCommand" /\ pc[u] = "lock" /\ op[u] = "send"

\* C7 (contiguous emission): on a non-negotiation bridge, between two frames of one
\* message id that reached the device, no frame of another message id and no
\* connector command reached it.
C7_ContiguousEmission ==
    ~m_IsNegotiationChannel =>
        \A i, j, k \in 1..Len(deviceLog) :
            (i < j /\ j < k /\ deviceLog[i].kind = "frame" /\ deviceLog[k] = deviceLog[i])
            => (deviceLog[j] = deviceLog[i] \/ deviceLog[j].kind = "run")

\* the second chunk of a packet is in the device while a connector command waits
\* for the mutex, a frame of an earlier message having reached the device
C7_Witness ==
    \E t, u \in Threads :
        /\ t # u /\ pc[t] = "inSend" /\ chunkId[t] = 1
        /\ pc[u] = "lock" /\ op[u] = "command"
        /\ \E i \in 1..Len(deviceLog) :
              deviceLog[i].kind = "frame" /\ deviceLog[i].id # messageId[t]

(***************************************************************************)
(* Properties of the receive path.                                         *)
(***************************************************************************)
\* how many times packet p was handed to relay.OnPacketReceived
Deliveries(p) == Cardinality({i \in 1..Len(relayLog) : relayLog[i] = p})

\* the packet all of whose chunks have arrived for the first time with the last call
CompletedByLastCall(chunks) == chunks \subseteq rxSeen /\ ~(chunks \subseteq lastRx.before)

\* C8 (exactly-once reassembled delivery): on a bridge that takes the chunked
\* receive path, whatever the order of the chunks, with chunks of another message
\* and repeated chunks in between, a packet is handed to relay.OnPacketReceived
\* once, by the PassNetworkPacket call that brings its last missing chunk, and not
\* before; a call hands over at most one packet, and nothing else is handed over.
C8_ExactlyOnceDelivery ==
    ~(m_IsNegotiationChannel /\ ~m_IsSlave) =>
        /\ Deliveries(PacketA) = (IF ChunksA \subseteq rxSeen THEN 1 ELSE 0)
        /\ Deliveries(PacketB) = (IF ChunksB \subseteq rxSeen THEN 1 ELSE 0)
        /\ \A i \in 1..Len(relayLog) : relayLog[i] \in {PacketA, PacketB}
        /\ Len(lastRx.delivered) <= 1
        /\ lastRx.delivered = <<PacketA>> <=> CompletedByLastCall(ChunksA)
        /\ lastRx.delivered = <<PacketB>> <=> CompletedByLastCall(ChunksB)

\* the three-chunk packet is handed over by the call that brings its middle chunk,
\* after a chunk of the other packet and a repeated chunk
C8_Witness ==
    /\ ~m_IsNegotiationChannel
    /\ nRx = MaxRx /\ Cardinality(rxSeen) = 4
    /\ lastRx.frame = BuildFrame(7, 1, Len(PacketA), <<12>>)
    /\ lastRx.delivered = <<PacketA>> /\ relayLog = <<PacketA>>

\* C9 (negotiation initiator receive): on a negotiation bridge that is not a slave
\* every PassNetworkPacket call hands the frame as it is to relay.OnPacketReceived,
\* once, and the reassembly state stays as constructed; on every other bridge the
\* frame is pushed into the QoS buffer (its message id is buffered or handed out)
\* and only what GetNextPacket returns is handed over.
C9_NegotiationInitiatorReceive ==
    nRx > 0 =>
        IF m_IsNegotiationChannel /\ ~m_IsSlave
        THEN /\ lastRx.delivered = <<lastRx.frame>> /\ ~lastRx.pushed
             /\ Len(relayLog) = nRx /\ relayLog[nRx] = lastRx.frame
             /\ DOMAIN m_ReciveQueue = {} /\ m_Surfaced = {}
        ELSE /\ lastRx.pushed
             /\ ParseHeader(lastRx.frame).messageId \in DOMAIN m_ReciveQueue \cup m_Surfaced
             /\ \A i \in 1..Len(relayLog) : relayLog[i] \in {PacketA, PacketB}

\* an initiator has handed over a frame without a header and then a chunk frame, as they came
C9_Witness ==
    /\ m_IsNegotiationChannel /\ ~m_IsSlave /\ Len(relayLog) = 2
    /\ relayLog[1] \in RawFrames /\ relayLog[2] \in ChunksA

(***************************************************************************)
(* Negotiation bridges and chunk headers.                                  *)
(***************************************************************************)
\* a negotiation bridge offers only raw packets and obtains no message id
EmitsNoHeader ==
    /\ idLog = <<>>
    /\ \A t \in Threads : /\ pc[t] \notin {"readId", "writeId", "loop", "inSend"}
                          /\ (op[t] = "send" /\ calls[t] > 0) => data[t] = orig[t]

\* nothing was parsed or buffered by the calls of PassNetworkPacket
AcceptsNoHeader ==
    /\ ~lastRx.pushed
    /\ DOMAIN m_ReciveQueue = {} /\ m_Surfaced = {}
    /\ Len(relayLog) = nRx

\* C10 as stated: a negotiation bridge, slave or not, offers no frame with a chunk
\* header and parses or buffers no received frame as a chunk.
C10_AsStated ==
    m_IsNegotiationChannel => (EmitsNoHeader /\ AcceptsNoHeader)

\* C10 (negotiation channels and chunk headers): a negotiation bridge, slave or
\* not, offers no frame with a chunk header; one that is not a slave parses and
\* buffers no received frame; one that is a slave pushes every received frame into
\* the QoS buffer as a chunk.
C10_NegotiationHeaders ==
    m_IsNegotiationChannel =>
        /\ EmitsNoHeader
        /\ ~m_IsSlave => AcceptsNoHeader
        /\ (m_IsSlave /\ nRx > 0) =>
              /\ lastRx.pushed
              /\ ParseHeader(lastRx.frame).messageId \in DOMAIN m_ReciveQueue \cup m_Surfaced

\* a slave negotiation bridge has sent a raw packet and buffers a received chunk
C10_Witness ==
    /\ m_IsNegotiationChannel /\ m_IsSlave
    /\ \E t \in Threads : op[t] = "send" /\ pc[t] = "done" /\ Len(orig[t]) > 1
    /\ lastRx.pushed /\ DOMAIN m_ReciveQueue # {}


(***************************************************************************)
(* Properties of the constructor.                                          *)
(***************************************************************************)
\* the ways to read a as WriteByteVector(x) \o WriteByteVector(y) \o rest, each
\* given by the lengths of x and y
Decompositions(a) ==
    {ij \in (0..Len(a)) \X (0..Len(a)) :
        /\ Len(a) >= 2 * Len(WriteU32(0)) + ij[1] + ij[2]
        /\ SubSeq(a, 1, Len(WriteU32(0))) = WriteU32(ij[1])
        /\ SubSeq(a, Len(WriteU32(0)) + ij[1] + 1, 2 * Len(WriteU32(0)) + ij[1])
               = WriteU32(ij[2])}

\* C16: on a negotiation channel, args made of two length-prefixed fields a, b
\* and a rest leave input id a, output id b and the rest as the non-negotiated
\* arguments; args too short for two fields make the constructor throw; on
\* any other bridge args are not parsed and the three members stay empty.
C16_NegotiationArguments ==
    constructed # "pending" =>
        IF m_IsNegotiationChannel
        THEN /\ \A ij \in Decompositions(args) :
                    LET h == Len(WriteU32(0))
                    IN  /\ constructed = "done"
                        /\ m_InputId = SubSeq(args, h + 1, h + ij[1])
                        /\ m_OutpuId = SubSeq(args, 2 * h + ij[1] + 1, 2 * h + ij[1] + ij[2])
                        /\ m_NonNegotiatiedArguments = Drop(args, 2 * h + ij[1] + ij[2])
             /\ Decompositions(args) = {} => constructed = "threw"
        ELSE /\ constructed = "done"
             /\ m_InputId = <<>>
             /\ m_OutpuId = <<>>
             /\ m_NonNegotiatiedArguments = <<>>

C16_Witness ==
    /\ constructed = "done"
    /\ m_IsNegotiationChannel
    /\ args = WriteByteVector(<<7>>) \o WriteByteVector(<<7, 8>>) \o <<1, 0, 0, 0, 9>>
    /\ m_InputId = <<7>>
    /\ m_OutpuId = <<7, 8>>
    /\ m_NonNegotiatiedArguments = <<1, 0, 0, 0, 9>>


(***************************************************************************)
(* Properties of the life cycle.                                           *)
(***************************************************************************)
\* the worker threads that exist and have not ended
Running == {w \in Workers : worker[w] \in {"test", "sleep", "receive"}}

\* C11: a Detach call sets m_IsAlive to false and changes nothing else of the
\* bridge (ids, flags, QoS, error string, write mutex, workers); a second and
\* any later call changes nothing at all; m_IsAlive never becomes true again;
\* a worker that has exited stays exited.
C11_DetachIdempotence ==
    [][/\ nDetach' # nDetach =>
            /\ m_IsAlive' = FALSE
            /\ nDetach > 0 => m_IsAlive' = m_IsAlive
            /\ UNCHANGED <<m_Error, attached, worker, logMessages, cfgVars, sendVars,
                           recvVars, ctorVars>>
       /\ ~m_IsAlive => ~m_IsAlive'
       /\ \A w \in Workers : worker[w] = "exited" => worker'[w] = "exited"]_vars

C11_Witness ==
    /\ nDetach >= 2
    /\ ~m_IsAlive
    /\ m_Error = "failed"
    /\ \E w \in Workers : worker[w] = "exited" /\ received[w] /\ ~faulted[w]

\* C12: Detach can be called while a worker is inside OnReceive and returns
\* without waiting for it; such a worker, once OnReceive returns or throws,
\* is at the loop test or has exited: it never sleeps or calls OnReceive again.
C12_DetachDuringReceive ==
    /\ ((\E w \in Workers : worker[w] = "receive") /\ nDetach < MaxDetach) => ENABLED Detach
    /\ \A w \in Workers :
           detachedInReceive[w] => worker[w] \in {"receive", "test", "exited"}

C12_Witness ==
    \E w \in Workers :
        /\ detachedInReceive[w]
        /\ worker[w] = "exited"
        /\ ~faulted[w]
        /\ afterDetach[w] = "none"

\* C13: whenever m_IsAlive is true the bridge has exactly one worker thread,
\* whatever the sequence of OnAttach, StartUpdatingInSeparateThread and Detach
\* calls; stated from the first StartUpdatingInSeparateThread call on, since no
\* worker exists before it.
C13_SingleWorker == (m_IsAlive /\ nStarts >= 1) => Cardinality(Running) = 1

\* C14: when the sleep or OnReceive throws, a std::exception or anything else,
\* the worker logs exactly one message, of severity Error and with the
\* bridge's did, and is at the loop test; no worker ends in that step; and a
\* worker that leaves the loop test while m_IsAlive is true goes to the sleep.
C14_WorkerAbsorbsFailures ==
    [][/\ nFailures' # nFailures =>
            /\ Len(logMessages') = Len(logMessages) + 1
            /\ logMessages'[Len(logMessages')].severity = "Error"
            /\ logMessages'[Len(logMessages')].did = m_Did
            /\ logMessages'[Len(logMessages')].text \in {StdExceptionText, UnknownExceptionText}
            /\ SubSeq(logMessages', 1, Len(logMessages)) = logMessages
            /\ \A w \in Workers : worker'[w] # worker[w] => worker'[w] = "test"
       /\ \A w \in Workers :
              (worker[w] = "test" /\ worker'[w] # "test" /\ m_IsAlive) => worker'[w] = "sleep"
       /\ \A w \in Workers :
              (worker'[w] = "exited" /\ worker[w] # "exited") => ~m_IsAlive \/ faulted'[w]]_vars

C14_Witness ==
    /\ nFailures = 2
    /\ Len(logMessages) = 2
    /\ logMessages[1].text = StdExceptionText
    /\ logMessages[2].text = UnknownExceptionText
    /\ m_IsAlive
    /\ nStarts = 1
    /\ worker[1] = "receive"

\* C15: when nothing is thrown and the threads are scheduled fairly, a worker
\* that was started either sees m_IsAlive turn false at some time, or calls
\* OnReceive again and again, with a sleep before each call.
C15_WorkerLiveness ==
    \A w \in Workers :
        [](worker[w] # "unborn" =>
              \/ <>(~m_IsAlive)
              \/ ([]<>(worker[w] = "receive") /\ []<>(worker[w] = "sleep")))

C15_Witness ==
    /\ m_IsAlive
    /\ nStarts = 1
    /\ worker[1] = "sleep"
    /\ received[1]


\* C20: after a Detach has returned a worker begins at most one more OnReceive
\* call, and m_IsAlive stays false, so the loop test that follows ends the
\* worker; Detach does not stop the senders: no call leaves by an exception
\* other than the negotiation error, a send begun after the Detach emits its
\* packet whole, and an arriving frame goes to the relay as it is on a
\* negotiation initiator and into the reassembly otherwise, all as before the
\* Detach.
C20_BoundedWorkAfterDetach ==
    /\ \A w \in Workers : afterDetach[w] # "more"
    /\ nDetach > 0 =>
           /\ ~m_IsAlive
           /\ \A w \in Workers : worker[w] = "sleep" => afterDetach[w] = "none"
           /\ \A t \in OneCaller :
                  /\ thrown[t] # NoException => thrown[t].kind = "negotiation-chunking"
                  /\ (nOps > detachedAt /\ pc[t] = "done" /\ op[t] = "send"
                          /\ ~m_IsNegotiationChannel /\ retries[t] = 0)
                         => Reassembled(taken[t]) = orig[t]
           /\ nRx > 0 =>
                  /\ lastRx.pushed = ~SkipsChunkingOnReceive
                  /\ ~lastRx.pushed => lastRx.delivered = <<lastRx.frame>>

C20_Witness ==
    /\ nDetach > 0
    /\ worker[1] = "exited"
    /\ afterDetach[1] = "once"
    /\ detachedAt = 0
    /\ nOps = 1
    /\ pc["t1"] = "done"
    /\ op["t1"] = "send"
    /\ ~m_IsNegotiationChannel
    /\ retries["t1"] = 0
    /\ Len(taken["t1"]) = 1
    /\ Reassembled(taken["t1"]) = Payload(LifeLen)
    /\ nRx > 0


(***************************************************************************)
(* Properties of the chunking loop and of the write mutex under exceptions. *)
(***************************************************************************)
Ceil(a, b) == (a + b - 1) \div b

Min(a, b) == IF a <= b THEN a ELSE b

RECURSIVE LeftBefore(_, _)
\* the bytes of the packet not yet taken when the i-th accepted frame was offered
LeftBefore(t, i) ==
    IF i = 1 THEN Len(orig[t])
    ELSE LeftBefore(t, i - 1) - (Len(taken[t][i - 1]) - s_HeaderSize)

\* the capacities k, at least s_MinFrameSize, of a transport that takes
\* min(k, offered) bytes, with which every answer of this send so far agrees
Capacities(t) ==
    {k \in s_MinFrameSize..(MaxLen + s_HeaderSize + 1) :
        /\ retries[t] = 0
        /\ \A i \in 1..Len(taken[t]) :
               Len(taken[t][i]) = Min(k, s_HeaderSize + LeftBefore(t, i))}

\* C17: on a non-negotiation bridge, when the transport takes min(k, offered)
\* bytes of every frame, for a k of at least s_MinFrameSize, the send of n >= 1
\* bytes never makes more than ceil(n / (k - s_HeaderSize)) transport calls and
\* has made exactly that many when it returns, each but the last having taken
\* k bytes (k - s_HeaderSize of payload); the send of an empty packet makes no
\* transport call, and it has consumed a message id all the same.
C17_ChunkCount ==
    \A t \in Threads :
        (op[t] = "send" /\ ~SkipsChunkingOnSend /\ pc[t] \in {"loop", "inSend", "done"}) =>
            /\ \E i \in 1..Len(idLog) : idLog[i].ticket = ticket[t]
            /\ orig[t] = <<>> => (calls[t] = 0 /\ pc[t] = "done")
            /\ orig[t] # <<>> =>
                   \A k \in Capacities(t) :
                       /\ calls[t] <= Ceil(Len(orig[t]), k - s_HeaderSize)
                       /\ pc[t] = "done" =>
                              /\ calls[t] = Ceil(Len(orig[t]), k - s_HeaderSize)
                              /\ \A i \in 1..(Len(taken[t]) - 1) : Len(taken[t][i]) = k

C17_Witness ==
    /\ op["t1"] = "send"
    /\ ~SkipsChunkingOnSend
    /\ pc["t1"] = "done"
    /\ Len(orig["t1"]) = 2 * (s_MinFrameSize - s_HeaderSize) + 1
    /\ s_MinFrameSize \in Capacities("t1")
    /\ calls["t1"] = 3

\* C18: whenever a chunk is accepted, the count passed to remove_prefix,
\* sent - s_HeaderSize, is computed without wrapping below zero, is at least 1
\* and is at most the number of bytes that were left; s_MinFrameSize is
\* greater than s_HeaderSize.
C18_CursorAdvance ==
    /\ s_MinFrameSize > s_HeaderSize
    /\ \A t \in Threads :
           accepted[t] # [sent |-> 0, size |-> 0] =>
               /\ accepted[t].sent >= s_HeaderSize
               /\ 1 <= accepted[t].sent - s_HeaderSize
               /\ accepted[t].sent - s_HeaderSize <= accepted[t].size

\* the last byte of a packet, taken as the third chunk
C18_Witness ==
    /\ pc["t1"] = "done"
    /\ chunkId["t1"] = 3
    /\ accepted["t1"] = [sent |-> s_HeaderSize + 1, size |-> 1]

\* C19: a handler that an exception has left, the negotiation error or an
\* exception of the device, also in the middle of a send of several chunks,
\* does not hold the write mutex, and its caller sees the exception; the mutex
\* is only ever held by a thread inside a guarded handler; no two sends,
\* failed ones included, obtain the same message id.
C19_MutexNotLeaked ==
    /\ \A t \in Threads :
           /\ pc[t] \in Resting => m_ProtectWriteInConcurrentThreads # t
           /\ pc[t] = "threw" <=> thrown[t] # NoException
    /\ \A i, j \in 1..Len(idLog) : i # j => idLog[i].id # idLog[j].id

\* a send fails after its first chunk; the other thread then sends a packet whole
C19_Witness ==
    /\ pc["t1"] = "threw"
    /\ thrown["t1"] = DeviceException
    /\ op["t1"] = "send"
    /\ chunkId["t1"] = 1
    /\ pc["t2"] = "done"
    /\ op["t2"] = "send"
    /\ ~SkipsChunkingOnSend
    /\ ticket["t2"] > ticket["t1"]
    /\ Len(taken["t2"]) = 2
    /\ Len(idLog) = 2

============================================================================
